---- MODULE Spec2Model ----
(***************************************************************************)
(* webp-optimize: src/main.rs.                                             *)
(*                                                                         *)
(* One run of the tool walks the input tree, and a rayon parallel map      *)
(* hands every walked file to a worker.  A worker reads the file, adds its *)
(* size to total_original_bytes, hashes it, derives the artifact path from *)
(* the digest and the file's PARENT directory, and either accounts for an  *)
(* artifact that already exists or decodes, encodes and writes one.  The   *)
(* main thread then reads both totals and prints the statistics.           *)
(*                                                                         *)
(* The model keeps the file system between runs, so that the state a later *)
(* run starts from is one an earlier run left.  Creating and writing the   *)
(* artifact are assumed to succeed (no full disk, no permission fault on   *)
(* the artifact's directory), but write_all may take more than one write,  *)
(* so that another worker can see the artifact partly written; the         *)
(* environment changes no file while the tool runs.                        *)
(***************************************************************************)
EXTENDS Integers, FiniteSets, Sequences, TLC

(***************************************************************************)
(* Bounds of the model.                                                    *)
(***************************************************************************)
\* number of files the user put in the input tree
NFiles == 2
\* number of consecutive runs of the tool over the same directories
MaxRuns == 2
\* largest total the statistics block is tried on (StatsSpec)
MaxTotal == 10
\* width of the model's unsigned word (u64 in the source)
WordBits == 6

Modulus == 2 ^ WordBits

(***************************************************************************)
(* Directories.  "in" is --input and "out" is --output; both lie in        *)
(* "top"; "sub" is a subdirectory of the input directory.                  *)
(***************************************************************************)
Dirs == {"top", "in", "sub", "out"}
InputDir == "in"
OutputDir == "out"
\* the directories walkdir descends into, starting at --input
InTree == {InputDir, "sub"}
\* what the operating system resolves <dir>/../ to
DotDot(d) == IF d = "sub" THEN InputDir ELSE "top"

(***************************************************************************)
(* File contents.  A content stands for one byte string:                   *)
(*   png   an image whose WebP encoding is smaller than the source         *)
(*   jpg   an image whose WebP encoding is as long as the source           *)
(*   txt   bytes that are no image                                         *)
(*   hdr   an image the decoder accepts and webp::Encoder::from_image      *)
(*         rejects (a pixel layout other than RGB8/RGBA8)                  *)
(*   wpng  the WebP encoding of png; encoding it again gives more bytes    *)
(*   wjpg, wwpng  the encodings of jpg and of wpng                         *)
(*   empty the byte string of length 0                                     *)
(*   part  the first byte of an encoding that is being written             *)
(***************************************************************************)
SourceContents == {"png", "jpg", "txt", "hdr"}
Contents == SourceContents \cup {"wpng", "wjpg", "wwpng", "empty", "part"}
NoFile == "none"

\* bytes.len()
Size(c) ==
  CASE c = "png" -> 3
    [] c = "jpg" -> 2
    [] c = "txt" -> 1
    [] c = "hdr" -> 2
    [] c = "wpng" -> 2
    [] c = "wjpg" -> 2
    [] c = "wwpng" -> 3
    [] c = "part" -> 1
    [] OTHER -> 0

\* ImageReader::open(path).decode() returns Ok
Decodable(c) == c \in {"png", "jpg", "hdr", "wpng", "wjpg", "wwpng"}

\* webp::Encoder::from_image(&img) returns Ok
Encodable(c) == c \in {"png", "jpg", "wpng", "wjpg", "wwpng"}

\* encoder.encode(quality): the bytes of the encoding
Encode(c) ==
  CASE c = "png" -> "wpng"
    [] c = "jpg" -> "wjpg"
    [] OTHER -> "wwpng"

\* blake3 digest in hex; one digest per byte string
Hash(c) == "#" \o c

(***************************************************************************)
(* Paths.  A user's file is <dir>/f<i>; an artifact is <dir>/<hash>.webp.  *)
(***************************************************************************)
SourceFile(i) == "f" \o ToString(i)
\* line 86: format!("{hash}.webp")
WebpFile(h) == h \o ".webp"
NoOne == [dir |-> "-", file |-> "-"]

IsArtifact(p) == p.file \in {WebpFile(Hash(c)) : c \in Contents}

VARIABLES
  fs,                     \* the files on the disk: path -> content
  fs0,                    \* history: the disk as it was when this run walked it
  unreadable,             \* the paths whose open or read fails
  outDirExists,           \* whether --output exists
  run,                    \* the number of the run
  phase,                  \* start, running, done (statistics printed), aborted (panic)
  entries,                \* the files walked by this run
  pc,                     \* each worker's position
  bytes,                  \* each worker's `bytes`
  webp_size,              \* each worker's `webp_size`
  webp_bytes,             \* each worker's `webp_bytes`
  acc,                    \* the total a worker read under the lock it holds
  total_original_bytes,
  total_webp_bytes,
  origLock,               \* holder of total_original_bytes' mutex
  webpLock,               \* holder of total_webp_bytes' mutex
  saved_bytes,
  percent_saved,          \* in hundredths of a percent
  origAdded,              \* history: what each worker added to total_original_bytes
  added,                  \* history: what each worker added to total_webp_bytes
  branch,                 \* history: which way each worker took (exists, smaller, marker)
  encodes,                \* history: encode-and-writes of this run, per digest
  decodes,                \* history: decodes of this run
  prev                    \* history: how the previous run ended

vars == <<fs, fs0, unreadable, outDirExists, run, phase, entries, pc, bytes, webp_size,
          webp_bytes, acc, total_original_bytes, total_webp_bytes, origLock,
          webpLock, saved_bytes, percent_saved, origAdded, added, branch, encodes,
          decodes, prev>>

locals == <<bytes, webp_size, webp_bytes, acc>>
totals == <<total_original_bytes, total_webp_bytes>>
locks == <<origLock, webpLock>>
stats == <<saved_bytes, percent_saved>>
history == <<origAdded, added, branch, encodes, decodes>>
disk == <<fs, unreadable, outDirExists>>
control == <<run, phase, entries, prev, fs0>>

NoPrev == [phase |-> "none", orig |-> 0, webp |-> 0, entries |-> {}, decodes |-> 0,
           creates |-> 0]

(***************************************************************************)
(* The state before the first run: the user's files in the input tree, no  *)
(* artifact anywhere.                                                      *)
(***************************************************************************)
\* The workers do not depend on a file's name, so the files are numbered in
\* the order of what they are: every other numbering gives the same runs.
Rank(d, c, r) ==
  (IF d = InputDir THEN 0 ELSE 8)
  + (CASE c = "png" -> 0 [] c = "jpg" -> 2 [] c = "txt" -> 4 [] OTHER -> 6)
  + (IF r THEN 0 ELSE 1)

Init ==
  /\ \E place \in [1..NFiles -> InTree], content \in [1..NFiles -> SourceContents],
        readable \in [1..NFiles -> BOOLEAN] :
       /\ \A i \in 1..(NFiles - 1) :
            Rank(place[i], content[i], readable[i])
              <= Rank(place[i + 1], content[i + 1], readable[i + 1])
       /\ fs = [p \in {[dir |-> place[i], file |-> SourceFile(i)] : i \in 1..NFiles} |->
                  content[CHOOSE i \in 1..NFiles : p.file = SourceFile(i)]]
       /\ unreadable = {[dir |-> place[i], file |-> SourceFile(i)] :
                          i \in {j \in 1..NFiles : ~readable[j]}}
  /\ fs0 = fs
  /\ outDirExists \in BOOLEAN
  /\ run = 1
  /\ phase = "start"
  /\ entries = {}
  /\ pc = [e \in {} |-> "open"]
  /\ bytes = [e \in {} |-> NoFile]
  /\ webp_size = [e \in {} |-> 0]
  /\ webp_bytes = [e \in {} |-> NoFile]
  /\ acc = [e \in {} |-> 0]
  /\ total_original_bytes = 0
  /\ total_webp_bytes = 0
  /\ origLock = NoOne
  /\ webpLock = NoOne
  /\ saved_bytes = 0
  /\ percent_saved = 0
  /\ origAdded = [e \in {} |-> -1]
  /\ added = [e \in {} |-> -1]
  /\ branch = [e \in {} |-> "none"]
  /\ encodes = [h \in {} |-> 0]
  /\ decodes = 0
  /\ prev = NoPrev

(***************************************************************************)
(* main, lines 34-51: create --output, walk --input, zero the totals.      *)
(***************************************************************************)
\* walkdir::WalkDir::new(input_dir) ... filter(is_file)
WalkDir == {p \in DOMAIN fs : p.dir \in InTree}

Walk ==
  /\ phase = "start"
  /\ outDirExists' = TRUE
  /\ entries' = WalkDir
  /\ pc' = [e \in WalkDir |-> "open"]
  /\ bytes' = [e \in WalkDir |-> NoFile]
  /\ webp_size' = [e \in WalkDir |-> 0]
  /\ webp_bytes' = [e \in WalkDir |-> NoFile]
  /\ acc' = [e \in WalkDir |-> 0]
  /\ total_original_bytes' = 0
  /\ total_webp_bytes' = 0
  /\ origAdded' = [e \in WalkDir |-> -1]
  /\ added' = [e \in WalkDir |-> -1]
  /\ branch' = [e \in WalkDir |-> "none"]
  /\ encodes' = [h \in {} |-> 0]
  /\ decodes' = 0
  /\ fs0' = fs
  /\ phase' = "running"
  /\ UNCHANGED <<fs, unreadable, run, prev, locks, stats>>

(***************************************************************************)
(* The worker of one walked file: the closure of entries.par_iter()        *)
(* .for_each, lines 53-141.  Each action is one step between two places    *)
(* where another worker can be observed or can observe this one.           *)
(***************************************************************************)
\* lines 81-86: entry.path().parent().unwrap().join("../").join("{hash}.webp")
WebpPath(e, b) ==
  [dir |-> DotDot(e.dir), file |-> WebpFile(Hash(b))]

\* OpenAndRead without the two early returns: a failed read is logged and the
\* worker goes on with whatever is in the buffer
OpenAndReadNoReturn(e) ==
  /\ pc[e] = "open"
  /\ pc' = [pc EXCEPT ![e] = "lock_orig"]
  /\ bytes' = [bytes EXCEPT ![e] = fs[e]]
  /\ UNCHANGED <<webp_size, webp_bytes, acc, totals, locks, stats, history, disk, control>>

\* lines 57-70: File::open and read_to_end; either failure logs and returns
OpenAndRead(e) ==
  /\ pc[e] = "open"
  /\ IF e \in unreadable
     THEN /\ pc' = [pc EXCEPT ![e] = "done"]
          /\ UNCHANGED bytes
     ELSE /\ pc' = [pc EXCEPT ![e] = "lock_orig"]
          /\ bytes' = [bytes EXCEPT ![e] = fs[e]]
  /\ UNCHANGED <<webp_size, webp_bytes, acc, totals, locks, stats, history, disk, control>>

\* a total updated without mutual exclusion
AcquireUnguarded(lock, e) == TRUE

\* Mutex::lock, lines 73, 94, 134, 138: blocks while another worker holds it
Acquire(lock, e) == lock = NoOne

\* line 73: total_original_bytes.lock().unwrap()
LockOrig(e) ==
  /\ pc[e] = "lock_orig"
  /\ Acquire(origLock, e)
  /\ origLock' = e
  /\ acc' = [acc EXCEPT ![e] = total_original_bytes]
  /\ pc' = [pc EXCEPT ![e] = "add_orig"]
  /\ UNCHANGED <<bytes, webp_size, webp_bytes, totals, webpLock, stats, history, disk,
                 control>>

\* the guard of total_original_bytes declared in the closure's own scope: the
\* worker keeps the mutex
KeepOrigGuard(e) == e

\* the holder of the mutex after the guard's scope ends (line 75)
DropOrigGuard(e) == NoOne

\* lines 74-75: *orig += bytes.len() as u64; the guard is dropped at the brace
\* (the sums of the model stay far below the word's range, so += never wraps)
AddOrig(e) ==
  /\ pc[e] = "add_orig"
  /\ total_original_bytes' = acc[e] + Size(bytes[e])
  /\ origAdded' = [origAdded EXCEPT ![e] = Size(bytes[e])]
  /\ origLock' = DropOrigGuard(e)
  /\ pc' = [pc EXCEPT ![e] = "exists"]
  /\ acc' = [acc EXCEPT ![e] = 0]
  /\ UNCHANGED <<bytes, webp_size, webp_bytes, total_webp_bytes, webpLock, stats, added,
                 branch, encodes, decodes, disk, control>>

\* the worker goes on to decode whether or not the artifact exists
CheckExistsNever(e) ==
  /\ pc[e] = "exists"
  /\ pc' = [pc EXCEPT ![e] = "decode"]
  /\ UNCHANGED <<locals, totals, locks, stats, history, disk, control>>

\* lines 77-88: hash, derive the path, webp_path.exists()
CheckExists(e) ==
  /\ pc[e] = "exists"
  /\ IF WebpPath(e, bytes[e]) \in DOMAIN fs
     THEN /\ pc' = [pc EXCEPT ![e] = "metadata"]
          /\ branch' = [branch EXCEPT ![e] = "exists"]
     ELSE /\ pc' = [pc EXCEPT ![e] = "decode"]
          /\ UNCHANGED branch
  /\ UNCHANGED <<locals, totals, locks, stats, origAdded, added, encodes, decodes, disk,
                 control>>

\* fs::metadata taken to fail every time
MetadataFails(e) ==
  /\ pc[e] = "metadata"
  /\ webp_size' = [webp_size EXCEPT ![e] = 0]
  /\ pc' = [pc EXCEPT ![e] = "lock_webp"]
  /\ UNCHANGED <<bytes, webp_bytes, acc, totals, locks, stats, history, disk, control>>

\* lines 89-92: fs::metadata(&webp_path), 0 on error
Metadata(e) ==
  /\ pc[e] = "metadata"
  /\ LET p == WebpPath(e, bytes[e])
     IN webp_size' = [webp_size EXCEPT ![e] = IF p \in DOMAIN fs THEN Size(fs[p]) ELSE 0]
  /\ pc' = [pc EXCEPT ![e] = "lock_webp"]
  /\ UNCHANGED <<bytes, webp_bytes, acc, totals, locks, stats, history, disk, control>>

\* lines 103-128: decode (panics on failure), normalise grayscale, encode
\* (returns when the encoder rejects the image)
DecodeEncode(e) ==
  /\ pc[e] = "decode"
  /\ decodes' = decodes + 1
  /\ IF ~Decodable(bytes[e])
     THEN /\ pc' = [pc EXCEPT ![e] = "panicked"]
          /\ UNCHANGED webp_bytes
     ELSE IF ~Encodable(bytes[e])
     THEN /\ pc' = [pc EXCEPT ![e] = "done"]
          /\ UNCHANGED webp_bytes
     ELSE /\ pc' = [pc EXCEPT ![e] = "create"]
          /\ webp_bytes' = [webp_bytes EXCEPT ![e] = Encode(bytes[e])]
  /\ UNCHANGED <<bytes, webp_size, acc, totals, locks, stats, origAdded, added, branch,
                 encodes, disk, control>>

\* the comparison with <= for <
SmallerOrEqual(e) == Size(webp_bytes[e]) <= Size(bytes[e])

\* line 130: webp_bytes.len() < bytes.len()
Smaller(e) == Size(webp_bytes[e]) < Size(bytes[e])

\* history: the encode-and-writes of digest h in this run
Encodes(h) == IF h \in DOMAIN encodes THEN encodes[h] ELSE 0

\* lines 131, 137: File::create(&webp_path) creates the file or truncates it
Create(e) ==
  /\ pc[e] = "create"
  /\ LET p == WebpPath(e, bytes[e])
     IN fs' = [q \in DOMAIN fs \cup {p} |-> IF q = p THEN "empty" ELSE fs[q]]
  /\ LET h == Hash(bytes[e])
     IN encodes' = [g \in DOMAIN encodes \cup {h} |->
                      IF g = h THEN Encodes(h) + 1 ELSE encodes[g]]
  /\ IF Smaller(e)
     THEN /\ pc' = [pc EXCEPT ![e] = "write"]
          /\ branch' = [branch EXCEPT ![e] = "smaller"]
     ELSE /\ pc' = [pc EXCEPT ![e] = "lock_webp"]
          /\ branch' = [branch EXCEPT ![e] = "marker"]
  /\ UNCHANGED <<locals, totals, locks, stats, origAdded, added, decodes, unreadable,
                 outDirExists, control>>

\* line 132: out.write_all(&webp_bytes), when the first write takes only the
\* first byte of the buffer
WritePart(e) ==
  /\ pc[e] = "write"
  /\ Size(webp_bytes[e]) > 1
  /\ fs' = [fs EXCEPT ![WebpPath(e, bytes[e])] = "part"]
  /\ pc' = [pc EXCEPT ![e] = "write_rest"]
  /\ UNCHANGED <<locals, totals, locks, stats, history, unreadable, outDirExists,
                 control>>

\* line 132: out.write_all(&webp_bytes), to the end of the buffer
Write(e) ==
  /\ pc[e] \in {"write", "write_rest"}
  /\ fs' = [fs EXCEPT ![WebpPath(e, bytes[e])] = webp_bytes[e]]
  /\ pc' = [pc EXCEPT ![e] = "lock_webp"]
  /\ UNCHANGED <<locals, totals, locks, stats, history, unreadable, outDirExists,
                 control>>

\* lines 94, 134, 138: total_webp_bytes.lock().unwrap()
LockWebp(e) ==
  /\ pc[e] = "lock_webp"
  /\ Acquire(webpLock, e)
  /\ webpLock' = e
  /\ acc' = [acc EXCEPT ![e] = total_webp_bytes]
  /\ pc' = [pc EXCEPT ![e] = "add_webp"]
  /\ UNCHANGED <<bytes, webp_size, webp_bytes, totals, origLock, stats, history, disk,
                 control>>

\* an existing artifact counted by its length, marker or not
ExistingAmountByLength(e) == webp_size[e]

\* lines 95-99: what an existing artifact adds
ExistingAmount(e) == IF webp_size[e] = 0 THEN Size(bytes[e]) ELSE webp_size[e]

\* lines 95-99, 135, 139: the amount added to total_webp_bytes
Amount(e) ==
  CASE branch[e] = "exists" -> ExistingAmount(e)
    [] branch[e] = "smaller" -> Size(webp_bytes[e])
    [] OTHER -> Size(bytes[e])

\* lines 95-100, 135, 139: *webp += ...; the guard is dropped at the return
AddWebp(e) ==
  /\ pc[e] = "add_webp"
  /\ total_webp_bytes' = acc[e] + Amount(e)
  /\ added' = [added EXCEPT ![e] = Amount(e)]
  /\ webpLock' = NoOne
  /\ pc' = [pc EXCEPT ![e] = "done"]
  /\ acc' = [acc EXCEPT ![e] = 0]
  /\ UNCHANGED <<bytes, webp_size, webp_bytes, total_original_bytes, origLock, stats,
                 origAdded, branch, encodes, decodes, disk, control>>

Worker(e) ==
  \/ OpenAndRead(e)
  \/ LockOrig(e)
  \/ AddOrig(e)
  \/ CheckExists(e)
  \/ Metadata(e)
  \/ DecodeEncode(e)
  \/ Create(e)
  \/ WritePart(e)
  \/ Write(e)
  \/ LockWebp(e)
  \/ AddWebp(e)

Step == \E e \in entries : Worker(e)

(***************************************************************************)
(* main after the parallel map, lines 143-172.                             *)
(***************************************************************************)
\* for_each returns when every closure has returned or panicked
Joined == \A e \in entries : pc[e] \in {"done", "panicked"}
Panicked == \E e \in entries : pc[e] = "panicked"

\* u64 subtraction
Sub(a, b) == (a - b) % Modulus

\* the subtraction without the comparison
SavedBytesUnchecked(orig, webp) == Sub(orig, webp)

\* lines 148-152
SavedBytes(orig, webp) == IF orig > webp THEN Sub(orig, webp) ELSE 0

\* lines 153-157, in hundredths of a percent (the report prints two decimals)
PercentSaved(orig, saved) == IF orig > 0 THEN (100 * 100 * saved) \div orig ELSE 0

\* lines 143-172: read the totals, compute and print the statistics
Stats ==
  /\ phase = "running"
  /\ Joined
  /\ ~Panicked
  /\ saved_bytes' = SavedBytes(total_original_bytes, total_webp_bytes)
  /\ percent_saved' =
       PercentSaved(total_original_bytes,
                    SavedBytes(total_original_bytes, total_webp_bytes))
  /\ phase' = "done"
  /\ UNCHANGED <<locals, totals, locks, history, disk, run, entries, prev, fs0, pc>>

\* a panic in a closure is resumed on the main thread when for_each returns:
\* the process exits without printing the statistics
Abort ==
  /\ phase = "running"
  /\ Joined
  /\ Panicked
  /\ phase' = "aborted"
  /\ UNCHANGED <<locals, totals, locks, stats, history, disk, run, entries, prev, fs0, pc>>

RECURSIVE SumOver(_, _)
SumOver(S, f) ==
  IF S = {} THEN 0
  ELSE LET x == CHOOSE y \in S : TRUE IN f[x] + SumOver(S \ {x}, f)

\* the user starts the tool again with the same --input and --output
Rerun ==
  /\ phase \in {"done", "aborted"}
  /\ run < MaxRuns
  /\ run' = run + 1
  /\ prev' = [phase |-> phase, orig |-> total_original_bytes,
              webp |-> total_webp_bytes, entries |-> entries, decodes |-> decodes,
              creates |-> SumOver(DOMAIN encodes, encodes)]
  /\ phase' = "start"
  /\ UNCHANGED <<locals, totals, locks, stats, history, disk, entries, fs0, pc>>

Next ==
  \/ Walk
  \/ \E e \in entries : OpenAndRead(e)
  \/ \E e \in entries : LockOrig(e)
  \/ \E e \in entries : AddOrig(e)
  \/ \E e \in entries : CheckExists(e)
  \/ \E e \in entries : Metadata(e)
  \/ \E e \in entries : DecodeEncode(e)
  \/ \E e \in entries : Create(e)
  \/ \E e \in entries : WritePart(e)
  \/ \E e \in entries : Write(e)
  \/ \E e \in entries : LockWebp(e)
  \/ \E e \in entries : AddWebp(e)
  \/ Stats
  \/ Abort
  \/ Rerun

Spec == Init /\ [][Next]_vars

\* Every closure handed to the pool runs to its end, and main goes on when
\* for_each returns; whether the user starts the tool again is up to the user.
FairSpec ==
  /\ Spec
  /\ WF_vars(Walk)
  /\ WF_vars(Step)
  /\ WF_vars(Stats)
  /\ WF_vars(Abort)

(***************************************************************************)
(* The statistics block on its own (lines 143-172): the parallel map has   *)
(* returned and the two totals hold any two values.                        *)
(***************************************************************************)
StatsInit ==
  /\ fs = [p \in {} |-> NoFile]
  /\ fs0 = fs
  /\ unreadable = {}
  /\ outDirExists = TRUE
  /\ run = 1
  /\ phase = "running"
  /\ entries = {}
  /\ pc = [e \in {} |-> "open"]
  /\ bytes = [e \in {} |-> NoFile]
  /\ webp_size = [e \in {} |-> 0]
  /\ webp_bytes = [e \in {} |-> NoFile]
  /\ acc = [e \in {} |-> 0]
  /\ total_original_bytes \in 0..MaxTotal
  /\ total_webp_bytes \in 0..MaxTotal
  /\ origLock = NoOne
  /\ webpLock = NoOne
  /\ saved_bytes = 0
  /\ percent_saved = 0
  /\ origAdded = [e \in {} |-> -1]
  /\ added = [e \in {} |-> -1]
  /\ branch = [e \in {} |-> "none"]
  /\ encodes = [h \in {} |-> 0]
  /\ decodes = 0
  /\ prev = NoPrev

StatsNext == Stats

StatsSpec == StatsInit /\ [][StatsNext]_vars

(***************************************************************************)
(* Properties.                                                             *)
(***************************************************************************)
\* the artifacts on the disk
Artifacts == {p \in DOMAIN fs : IsArtifact(p)}
\* the walked files whose open and read succeed
ReadEntries == entries \ unreadable
Max0(n) == IF n > 0 THEN n ELSE 0

\* C1: within one run, no digest is encoded and written more than once,
\* whatever the number of files sharing it and however the workers interleave.
C1_AtMostOneEncodePerDigest == \A h \in DOMAIN encodes : encodes[h] <= 1

\* C2: when a run has printed its statistics, two walked files with the same
\* image bytes have left exactly one artifact named by their digest, wherever
\* the two files lie in the input tree.
C2_OneArtifactPerDigest ==
  phase = "done" =>
    \A e1, e2 \in ReadEntries :
      (e1 # e2 /\ fs[e1] = fs[e2] /\ Decodable(fs[e1]) /\ Encodable(fs[e1])) =>
        Cardinality({p \in Artifacts : p.file = WebpFile(Hash(fs[e1]))}) = 1

\* C3: a second run that follows a completed first run decodes, encodes and
\* writes nothing, walks the same files and reports the same two totals.
C3_SecondRunIdempotent ==
  (run = 2 /\ phase = "done" /\ prev.phase = "done") =>
    /\ decodes = 0
    /\ \A h \in DOMAIN encodes : encodes[h] = 0
    /\ entries = prev.entries
    /\ total_original_bytes = prev.orig
    /\ total_webp_bytes = prev.webp

\* C4: no file makes the run abort: no worker panics, and when every worker
\* has finished the run goes on to the statistics.
C4_RunNeverAborts ==
  /\ \A e \in entries : pc[e] # "panicked"
  /\ phase # "aborted"

\* C5: a file that cannot be opened or read is skipped: its worker stops at
\* once, having added nothing to either total and taken no step towards an
\* artifact, and when the run ends every readable file has been accounted for.
C5_UnreadableSkipped ==
  /\ \A e \in entries \cap unreadable :
       /\ pc[e] \in {"open", "done"}
       /\ bytes[e] = NoFile
       /\ origAdded[e] = -1
       /\ added[e] = -1
       /\ branch[e] = "none"
  /\ phase \in {"done", "aborted"} =>
       /\ total_original_bytes = SumOver(ReadEntries, origAdded)
       /\ \A e \in ReadEntries : origAdded[e] = Size(fs[e])

C5_Witness ==
  /\ phase = "done"
  /\ \E e \in entries \cap unreadable : pc[e] = "done"
  /\ \E e \in ReadEntries : added[e] > 0

\* C6: a worker that wrote the marker, or that found an artifact of length 0,
\* adds its own file's size to the output total, and that is not 0.
C6_MarkerCountsSourceSize ==
  \A e \in entries :
    (/\ added[e] # -1
     /\ \/ branch[e] = "marker"
        \/ branch[e] = "exists" /\ webp_size[e] = 0) =>
      /\ added[e] = Size(bytes[e])
      /\ added[e] > 0

C6_Witness ==
  \E e1, e2 \in entries :
    /\ branch[e1] = "marker" /\ added[e1] = Size(bytes[e1])
    /\ branch[e2] = "exists" /\ webp_size[e2] = 0 /\ added[e2] = Size(bytes[e2])

\* sum of the sizes of the files of S
RECURSIVE SumSizes(_)
SumSizes(S) ==
  IF S = {} THEN 0
  ELSE LET x == CHOOSE y \in S : TRUE IN Size(fs[x]) + SumSizes(S \ {x})

\* C7: during a run neither total decreases, and when every worker has
\* finished the original total is the sum of the sizes of the files that were
\* read, however the workers interleaved.
C7_TotalsMonotoneAndExact ==
  /\ [][phase # "start" =>
         /\ total_original_bytes' >= total_original_bytes
         /\ total_webp_bytes' >= total_webp_bytes]_vars
  /\ [](Joined => total_original_bytes = SumSizes(ReadEntries))

C7_Witness ==
  /\ Joined
  /\ Cardinality(ReadEntries) >= 2
  /\ total_original_bytes = SumSizes(ReadEntries)
  /\ total_original_bytes > 0

\* C8: for any two totals the report has saved = max(0, original - output),
\* 0 <= saved <= original, and a percentage between 0 and 100 that is 0 when
\* the original total is 0.
C8_StatsInRange ==
  phase = "done" =>
    /\ saved_bytes = Max0(total_original_bytes - total_webp_bytes)
    /\ 0 <= saved_bytes
    /\ saved_bytes <= total_original_bytes
    /\ 0 <= percent_saved
    /\ percent_saved <= 100 * 100
    /\ total_original_bytes = 0 => percent_saved = 0

C8_Witness ==
  /\ phase = "done"
  /\ total_webp_bytes > total_original_bytes
  /\ total_original_bytes > 0
  /\ saved_bytes = 0

\* C9: every artifact lies directly in the --output directory and is named
\* by a digest.
C9_ArtifactsInOutputDir == \A p \in Artifacts : p.dir = OutputDir

\* the walked files are all readable and decodable
AllDecodable == \A e \in entries : e \notin unreadable /\ Decodable(fs[e])

\* C10: a worker holds a total's mutex only while it adds to that total, never
\* while it waits for the other one, and a run over readable, decodable files
\* reaches the statistics.
C10_NoDeadlock ==
  /\ [](\A e \in entries :
          /\ origLock = e => pc[e] = "add_orig"
          /\ webpLock = e => pc[e] = "add_webp")
  /\ ((phase = "running" /\ AllDecodable) ~> (phase = "done"))

C10_Witness ==
  /\ phase = "done"
  /\ AllDecodable
  /\ Cardinality(entries) >= 2
  /\ \A e \in entries : added[e] > 0

(***************************************************************************)
(* The same file list handled by one worker after the other (lines 53-141  *)
(* run to the end for one file before the next file starts).               *)
(***************************************************************************)
SeqStart == [disk |-> fs0, orig |-> 0, webp |-> 0, aborted |-> FALSE]

SeqStep(e, st) ==
  IF e \in unreadable THEN st
  ELSE
    LET b == st.disk[e]
        p == WebpPath(e, b)
        st1 == [st EXCEPT !.orig = @ + Size(b)]
        put(c) == [q \in DOMAIN st.disk \cup {p} |-> IF q = p THEN c ELSE st.disk[q]]
    IN IF p \in DOMAIN st.disk
       THEN [st1 EXCEPT !.webp = @ + (IF Size(st.disk[p]) = 0 THEN Size(b)
                                      ELSE Size(st.disk[p]))]
       ELSE IF ~Decodable(b) THEN [st1 EXCEPT !.aborted = TRUE]
       ELSE IF ~Encodable(b) THEN st1
       ELSE IF Size(Encode(b)) < Size(b)
       THEN [st1 EXCEPT !.disk = put(Encode(b)), !.webp = @ + Size(Encode(b))]
       ELSE [st1 EXCEPT !.disk = put("empty"), !.webp = @ + Size(b)]

RECURSIVE SeqRun(_, _)
SeqRun(S, st) ==
  IF S = {} THEN st
  ELSE LET e == CHOOSE x \in S : TRUE IN SeqRun(S \ {e}, SeqStep(e, st))

\* two walked files have the same bytes
SharedDigest == \E e1, e2 \in ReadEntries : e1 # e2 /\ fs[e1] = fs[e2]

\* C11: when files sharing a digest were handled in parallel and the run has
\* printed its statistics, the disk and both totals are those of handling the
\* same files one after the other.
C11_SameAsSequential ==
  (phase = "done" /\ SharedDigest) =>
    LET r == SeqRun(entries, SeqStart)
    IN /\ fs = r.disk
       /\ total_original_bytes = r.orig
       /\ total_webp_bytes = r.webp

\* the worker has read the length of the artifact it found
SawLength(e) == branch[e] = "exists" /\ pc[e] \in {"lock_webp", "add_webp", "done"}

\* C12: a worker finds length 0 at its output path only if the encoding of
\* that digest is not smaller than the source: never a file another worker
\* has created and not yet written.
C12_ZeroLengthMeansDeclined ==
  \A e \in entries :
    (SawLength(e) /\ webp_size[e] = 0) => Size(Encode(bytes[e])) >= Size(bytes[e])

C14_ExistingArtifactOnlyCounted ==
  /\ [](\A e \in entries : branch[e] = "exists" =>
           /\ origAdded[e] = Size(bytes[e])
           /\ pc[e] \in {"metadata", "lock_webp", "add_webp", "done"})
  /\ [][phase = "running" =>
        \A e \in entries :
          LET p == WebpPath(e, bytes[e])
          IN /\ (pc[e] = "exists" /\ pc'[e] # "exists" /\ p \in DOMAIN fs) =>
                  /\ pc'[e] = "metadata"
                  /\ branch'[e] = "exists"
                  /\ fs' = fs
             /\ (pc[e] = "metadata" /\ pc'[e] # "metadata") =>
                  webp_size'[e] = Size(fs[p])
             /\ (branch[e] = "exists" /\ pc'[e] # pc[e]) =>
                  /\ fs' = fs
                  /\ decodes' = decodes
                  /\ encodes' = encodes
                  /\ total_original_bytes' = total_original_bytes
             /\ (branch[e] = "exists" /\ pc[e] = "add_webp" /\ pc'[e] # pc[e]) =>
                  /\ pc'[e] = "done"
                  /\ total_webp_bytes' = total_webp_bytes
                       + (IF webp_size[e] = 0 THEN Size(bytes[e]) ELSE webp_size[e])]_vars

C14_Witness ==
  \E e \in entries :
    /\ branch[e] = "exists"
    /\ pc[e] = "done"
    /\ webp_size[e] > 0
    /\ added[e] = webp_size[e]
    /\ origAdded[e] = Size(bytes[e])

\* C15: when a run has printed its statistics, every file counted in the
\* original total has added one amount to the output total, and that amount
\* is at most the file's size.
C15_EveryCountedFileContributes ==
  phase = "done" =>
    \A e \in entries : origAdded[e] # -1 =>
      /\ added[e] # -1
      /\ added[e] <= origAdded[e]

\* C16: every file that was on the disk when the run walked it is still
\* there with the same bytes: files are created or truncated only at paths
\* that did not exist when the run began.
C16_ExistingFilesUntouched ==
  \A p \in DOMAIN fs0 : p \in DOMAIN fs /\ fs[p] = fs0[p]

C16_Witness ==
  /\ run = 2
  /\ phase = "done"
  /\ \E e \in entries :
       /\ branch[e] = "exists"
       /\ WebpPath(e, bytes[e]) \in DOMAIN fs0
  /\ \E q \in DOMAIN fs : q \notin DOMAIN fs0

\* no walked file has a file at its output path when the run begins
NoOutputAtStart == \A e \in ReadEntries : WebpPath(e, fs0[e]) \notin DOMAIN fs0

\* C17: a run that begins with no file at any output path and prints its
\* statistics reports an output total that is at most the original total.
C17_OutputAtMostOriginal ==
  (phase = "done" /\ NoOutputAtStart) => total_webp_bytes <= total_original_bytes

\* a worker counted the length of an artifact another worker had partly written
C17_Witness ==
  /\ phase = "done"
  /\ NoOutputAtStart
  /\ \E e \in entries :
       /\ branch[e] = "exists"
       /\ webp_size[e] = Size("part")
       /\ added[e] = Size("part")
  /\ total_webp_bytes < total_original_bytes
====
